---- MODULE Spec2Model ----
(***************************************************************************)
(* The time tracker (server.js, current revision, and lib/): the entries  *)
(* table with the handlers POST /api/clock-in, POST /api/clock-out,        *)
(* POST /api/toggle and PUT /api/entries/:id/comment and the duration of   *)
(* the toggle response (Spec, SpecConc, SpecDur, SpecCarry); the Excel     *)
(* report and GET /api/export (SpecReport); the reminder timer and its     *)
(* push notifications (SpecPush); the monthly email reports (SpecMail).    *)
(*                                                                         *)
(* Values.  A JavaScript / SQL value is a tuple: NULL is the empty tuple,  *)
(* a text such as a date, a comment or a timezone is a one-element tuple   *)
(* holding the text, and a time-of-day "HH:MM" is the tuple of its four    *)
(* decimal digits (the colon sits between the second and the third).       *)
(***************************************************************************)
EXTENDS Integers, Sequences, FiniteSets, Bags, TLC

VARIABLES
    entries,    \* rows of table entries
    nextId,     \* next AUTOINCREMENT id of table entries
    last,       \* the response of the handler that ran last (and its request)
    calls,      \* number of calls handled so far
    inflight,   \* bag of requests received and not yet handled
    log,        \* SpecConc: the requests received and the calls handled so far
    report,     \* SpecReport: the export request being served and its workbook
    push,       \* SpecPush: settings, subscriptions and the sends of the reminders
    mail,       \* SpecMail: users, the mail transport and the run of the monthly reports
    auth        \* SpecRegister: table users and the registrations being served

vars == <<entries, nextId, last, calls, inflight, log, report, push, mail, auth>>

-----------------------------------------------------------------------------
(* Bounds of the model *)

MaxCalls == 3        \* calls handled in one behaviour
MaxInflight == 2     \* requests in flight at once (SpecConc)
MaxIssued == 2       \* requests received in one behaviour of SpecConc
CarryRows == 3       \* rows of the table a toggle of SpecCarry starts from
ReportRows == 2      \* rows of the table an export of SpecReport starts from
MaxMonths == 6       \* months one report may hold
MaxTicks == 2        \* ticks of the reminder timer in one behaviour of SpecPush
MaxSubscribes == 1   \* POST /api/subscribe calls in one behaviour of SpecSubscribe
MaxRegistrations == 2 \* POST /auth/register calls in one behaviour of SpecRegister

(* Program constants *)

MinutesPerHour == 60

-----------------------------------------------------------------------------
(* Values *)

Null == <<>>
Str(s) == <<s>>
EmptyStr == Str("")

\* JavaScript truthiness of a nullable text: null and "" are falsy.
Truthy(v) == v # Null /\ v # EmptyStr

\* a || b
JsOr(a, b) == IF Truthy(a) THEN a ELSE b

Users == {1, 2}
Dates == {Str("2026-03-10"), Str("2026-03-11")}
Times == {<<0, 9, 4, 5>>, <<1, 7, 3, 0>>}
Timezones == {Str("Europe/Vienna")}
Comments == {Str("lunch")}

\* What a client may send in each field (Null: the field is absent).
TimezoneInputs == Timezones \cup {Null}
CommentInputs == Comments \cup {Null, EmptyStr}

\* new Date().toISOString().split('T')[0] and new Date().toTimeString().slice(0, 5):
\* the server's clock may show any date and any time.
ServerDates == Dates
ServerTimes == Times

\* The values the expression  date || <server date>  can take.
Today(date) == IF Truthy(date) THEN {date} ELSE ServerDates
\* The values the expression  time || <server time>  can take.
Now(time) == IF Truthy(time) THEN {time} ELSE ServerTimes

-----------------------------------------------------------------------------
(* Requests and responses *)

Request(op, user, date, time, tz, comment, id) ==
    [op |-> op, user |-> user, date |-> date, time |-> time, tz |-> tz,
     comment |-> comment, id |-> id]

\* The body fields {date, time, timezone} of a clock request: a current client sends
\* its date and time (and its timezone when it knows it), an older client sends none.
ClockBodies ==
    {<<d, t, z>> : d \in Dates, t \in Times, z \in TimezoneInputs}
        \cup {<<Null, Null, Null>>}

ClockInRequests ==
    {Request("clock-in", u, b[1], b[2], b[3], Null, 0) : u \in Users, b \in ClockBodies}
ClockOutRequests ==
    {Request("clock-out", x[1], x[2][1], x[2][2], x[2][3], x[3], 0) :
        x \in Users \X ClockBodies \X CommentInputs}
ToggleRequests ==
    {Request("toggle", u, b[1], b[2], b[3], Null, 0) : u \in Users, b \in ClockBodies}
CommentRequests ==
    {Request("comment", u, Null, Null, Null, c, i) :
        u \in Users, c \in Comments, i \in 1..MaxCalls}

\* The record of a handled call: the request as it was sent (user, date, time, tz,
\* comment, id), the date and the time the handler settled on (today, now), and
\* the answer.  A rejected call wrote nothing: its record keeps the operation, the
\* user, the date (or the id) and the answer.
Response(r, today, now, status, error, action, entryId, checkIn, duration, lc, lcd) ==
    [op |-> r.op, user |-> r.user, date |-> r.date, time |-> r.time, tz |-> r.tz,
     comment |-> r.comment, id |-> r.id, today |-> today, now |-> now,
     status |-> status, error |-> error, action |-> action, entryId |-> entryId,
     checkIn |-> checkIn, duration |-> duration,
     lastComment |-> lc, lastCommentDate |-> lcd]

Success(r, today, now, entryId) ==
    Response(r, today, now, 200, Null, Null, entryId, Null, Null, Null, Null)

Failure(r, today, status, error) ==
    Response(Request(r.op, r.user, Null, Null, Null, Null, r.id), today, Null,
             status, Str(error), Null, 0, Null, Null, Null, Null)

NoResponse ==
    Response(Request("none", 0, Null, Null, Null, Null, 0), Null, Null,
             0, Null, Null, 0, Null, Null, Null, Null)

-----------------------------------------------------------------------------
(* Table entries *)

Entry(id, user, date, checkIn, checkOut, comment, tz) ==
    [id |-> id, user |-> user, date |-> date, check_in |-> checkIn,
     check_out |-> checkOut, comment |-> comment, timezone |-> tz]

\* Mutant: the WHERE clause forgets user_id.
LatestEntryAnyUser(rows, user, date) ==
    LET mine == {e \in rows : e.date = date}
    IN  {e \in mine : \A f \in mine : f.id <= e.id}

\* SELECT * FROM entries WHERE user_id = ? AND date = ? ORDER BY id DESC LIMIT 1
\* (the empty set when there is no such row, else the set of that one row)
LatestEntry(rows, user, date) ==
    LET mine == {e \in rows : e.user = user /\ e.date = date}
    IN  {e \in mine : \A f \in mine : f.id <= e.id}

\* Mutant: the negation of check_out is lost.
CheckedInNoNegation(e) == Truthy(e.check_in) /\ Truthy(e.check_out)

\* existing.check_in && !existing.check_out
CheckedIn(e) == Truthy(e.check_in) /\ ~Truthy(e.check_out)

\* Mutant: timezone = ? (the sent timezone overwrites the stored one).
CoalesceOverwrite(a, b) == b

\* COALESCE(timezone, ?)
Coalesce(a, b) == IF a # Null THEN a ELSE b

\* SELECT comment, date FROM entries WHERE user_id = ? AND comment IS NOT NULL
\*   AND comment != '' ORDER BY date DESC, id DESC LIMIT 1
\* Dates are "YYYY-MM-DD" texts of one month here: their order is the order of the text.
DateLess(a, b) == a = Str("2026-03-10") /\ b = Str("2026-03-11")

\* Mutant: ORDER BY id DESC LIMIT 1
LastCommentEntryById(rows, user) ==
    LET mine == {e \in rows : e.user = user /\ e.comment # Null /\ e.comment # EmptyStr}
    IN  {e \in mine : \A f \in mine : f.id <= e.id}

LastCommentEntry(rows, user) ==
    LET mine == {e \in rows : e.user = user /\ e.comment # Null /\ e.comment # EmptyStr}
    IN  {e \in mine : \A f \in mine :
            f = e \/ DateLess(f.date, e.date) \/ (f.date = e.date /\ f.id < e.id)}

-----------------------------------------------------------------------------
(* Duration of the toggle response *)

\* "HH:MM".split(':').map(Number)
SplitNumber(t) == <<10 * t[1] + t[2], 10 * t[3] + t[4]>>

\* JavaScript a % b for b > 0: the result has the sign of a.
JsRem(a, b) == IF a >= 0 THEN a % b ELSE -((-a) % b)

\* Mutant: Math.round(a / b)
RoundDiv(a, b) == (2 * a + b) \div (2 * b)

\* Math.floor(a / b) for b > 0
FloorDiv(a, b) == a \div b

\* `${hours}h ${minutes}m`
ToggleDuration(checkIn, now) ==
    LET i == SplitNumber(checkIn)
        o == SplitNumber(now)
        totalMinutes == (o[1] * MinutesPerHour + o[2]) - (i[1] * MinutesPerHour + i[2])
        hours == FloorDiv(totalMinutes, MinutesPerHour)
        minutes == JsRem(totalMinutes, MinutesPerHour)
    IN  <<hours, "h ", minutes, "m">>

-----------------------------------------------------------------------------
(* No export request is being served. *)
NoReport == [pc |-> "idle"]

(* No settings, no subscriptions, no reminder sent. *)
NoPush == [ticks |-> 0]

(* No run of the monthly reports. *)
NoMail == [pc |-> "idle"]

(* No registration is being served. *)
NoAuth == [registrations |-> <<>>]

-----------------------------------------------------------------------------
(* Initial state: empty tables *)

Init ==
    /\ entries = {}
    /\ nextId = 1
    /\ last = NoResponse
    /\ calls = 0
    /\ inflight = EmptyBag
    /\ log = <<>>
    /\ auth = NoAuth
    /\ report = NoReport
    /\ push = NoPush
    /\ mail = NoMail

-----------------------------------------------------------------------------
(* Handlers.  better-sqlite3 is synchronous and no handler below awaits:   *)
(* each runs from its first statement to its response in one turn of the   *)
(* event loop, so each is one step.                                        *)

\* Mutant: INSERT INTO entries (user_id, date, check_in) VALUES (?, ?, ?)
InsertEntryNoTimezone(rows, id, user, today, now, tz) ==
    rows \cup {[id |-> id, user |-> user, date |-> today, check_in |-> now,
                check_out |-> Null, comment |-> Null, timezone |-> Null]}

\* INSERT INTO entries (user_id, date, check_in, timezone) VALUES (?, ?, ?, ?)
InsertEntry(rows, id, user, today, now, tz) ==
    rows \cup {Entry(id, user, today, now, Null, Null, tz)}

\* Mutant: ... WHERE user_id = ? AND check_out IS NULL (every open entry of the user)
UpdateClockOutEveryOpen(rows, now, comment, tz, id, user) ==
    {IF e.user = user /\ e.check_out = Null
        THEN [e EXCEPT !.check_out = now, !.comment = comment,
                       !.timezone = Coalesce(e.timezone, tz)]
        ELSE e : e \in rows}

\* UPDATE entries SET check_out = ?, comment = ?, timezone = COALESCE(timezone, ?)
\*   WHERE id = ? AND user_id = ?
UpdateClockOut(rows, now, comment, tz, id, user) ==
    {IF e.id = id /\ e.user = user
        THEN [e EXCEPT !.check_out = now, !.comment = comment,
                       !.timezone = Coalesce(e.timezone, tz)]
        ELSE e : e \in rows}

\* Mutant: the toggle reuses the statement of clock-out with a null comment.
UpdateToggleOutClearsComment(rows, now, tz, id, user) ==
    {IF e.id = id /\ e.user = user
        THEN [e EXCEPT !.check_out = now, !.comment = Null,
                       !.timezone = Coalesce(e.timezone, tz)]
        ELSE e : e \in rows}

\* UPDATE entries SET check_out = ?, timezone = COALESCE(timezone, ?)
\*   WHERE id = ? AND user_id = ?
UpdateToggleOut(rows, now, tz, id, user) ==
    {IF e.id = id /\ e.user = user
        THEN [e EXCEPT !.check_out = now, !.timezone = Coalesce(e.timezone, tz)]
        ELSE e : e \in rows}

\* UPDATE entries SET comment = ? WHERE id = ? AND user_id = ?
UpdateCommentOf(rows, comment, id, user) ==
    {IF e.id = id /\ e.user = user THEN [e EXCEPT !.comment = comment] ELSE e :
        e \in rows}

\* Mutant: if (existing && existing.check_in && !existing.check_out) is missing.
NeverClockedIn(existing) == FALSE

\* clock-in: if (existing && existing.check_in && !existing.check_out)
AlreadyClockedIn(existing) == \E e \in existing : CheckedIn(e)

\* Mutant: the check of entry.check_out is missing.
ClockOutErrorNoClosedCheck(entry) ==
    IF entry = {} \/ \E e \in entry : e.check_in = Null THEN "Not clocked in" ELSE ""

\* clock-out: the two rejections, in the order of the code ("" when neither applies)
ClockOutError(entry) ==
    IF entry = {} \/ \E e \in entry : ~Truthy(e.check_in) THEN "Not clocked in"
    ELSE IF \E e \in entry : Truthy(e.check_out) THEN "Already clocked out"
    ELSE ""

\* Mutant: if (!entry || entry.check_in)
ShouldCheckInWrongField(entry) == entry = {} \/ \E e \in entry : Truthy(e.check_in)

\* toggle: if (!entry || entry.check_out)
ShouldCheckIn(entry) == entry = {} \/ \E e \in entry : Truthy(e.check_out)

\* The table after POST /api/clock-in has run with these values.
ClockInStore(rows, id, user, today, now, tz) ==
    IF AlreadyClockedIn(LatestEntry(rows, user, today))
    THEN rows
    ELSE InsertEntry(rows, id, user, today, now, tz)

\* The table after POST /api/clock-out has run with these values.
ClockOutStore(rows, user, today, now, tz, comment) ==
    LET entry == LatestEntry(rows, user, today)
    IN  IF ClockOutError(entry) # ""
        THEN rows
        ELSE UpdateClockOut(rows, now, comment, tz, (CHOOSE e \in entry : TRUE).id, user)

\* The table after POST /api/toggle has run with these values.
ToggleStore(rows, id, user, today, now, tz) ==
    LET entry == LatestEntry(rows, user, today)
    IN  IF ShouldCheckIn(entry)
        THEN InsertEntry(rows, id, user, today, now, tz)
        ELSE IF \E e \in entry : CheckedIn(e)
        THEN UpdateToggleOut(rows, now, tz, (CHOOSE e \in entry : TRUE).id, user)
        ELSE rows

\* A behaviour of the model ends after MaxCalls calls.
Served == calls < MaxCalls /\ calls' = calls + 1

\* POST /api/clock-in
ClockIn(r) ==
    \E today \in Today(r.date), now \in Now(r.time) :
        LET tz == JsOr(r.tz, Null)
            rows == ClockInStore(entries, nextId, r.user, today, now, tz)
        IN  /\ Served
            /\ entries' = rows
            /\ IF AlreadyClockedIn(LatestEntry(entries, r.user, today))
               THEN /\ last' = Failure(r, today, 400, "Already clocked in")
                    /\ UNCHANGED nextId
               ELSE /\ last' = Success(r, today, now, nextId)
                    /\ nextId' = nextId + 1

\* Mutant: the response reports the duration as the toggle check-out does.
ClockOutResponseWithDuration(r, today, now, entry) ==
    Response(r, today, now, 200, Null, Null, 0, Null,
             ToggleDuration((CHOOSE e \in entry : TRUE).check_in, now), Null, Null)

\* clock-out: res.json({ success: true, time: now })
ClockOutResponse(r, today, now, entry) == Success(r, today, now, 0)

\* POST /api/clock-out
ClockOut(r) ==
    \E today \in Today(r.date), now \in Now(r.time) :
        LET tz == JsOr(r.tz, Null)
            comment == JsOr(r.comment, Null)
            error == ClockOutError(LatestEntry(entries, r.user, today))
        IN  /\ Served
            /\ entries' = ClockOutStore(entries, r.user, today, now, tz, comment)
            /\ last' = IF error # "" THEN Failure(r, today, 400, error)
                       ELSE ClockOutResponse(r, today, now,
                                             LatestEntry(entries, r.user, today))
            /\ UNCHANGED nextId

\* POST /api/toggle
Toggle(r) ==
    \E today \in Today(r.date), now \in Now(r.time) :
        LET tz == JsOr(r.tz, Null)
            entry == LatestEntry(entries, r.user, today)
            rows == ToggleStore(entries, nextId, r.user, today, now, tz)
            lc == LastCommentEntry(rows, r.user)
        IN  /\ Served
            /\ entries' = rows
            /\ IF ShouldCheckIn(entry)
               THEN /\ last' = Response(r, today, now, 200, Null, Str("check-in"),
                                  nextId, Null, Null,
                                  IF lc = {} THEN Null ELSE (CHOOSE e \in lc : TRUE).comment,
                                  IF lc = {} THEN Null ELSE (CHOOSE e \in lc : TRUE).date)
                    /\ nextId' = nextId + 1
               ELSE IF \E e \in entry : CheckedIn(e)
               THEN /\ \E e \in entry :
                        last' = Response(r, today, now, 200, Null, Str("check-out"),
                                    e.id, e.check_in, ToggleDuration(e.check_in, now),
                                    Null, Null)
                    /\ UNCHANGED nextId
               ELSE /\ last' = Failure(r, today, 400, "Unknown state")
                    /\ UNCHANGED nextId

\* Mutant: SELECT * FROM entries WHERE id = ?
FindEntryAnyUser(rows, id, user) == {e \in rows : e.id = id}

\* SELECT * FROM entries WHERE id = ? AND user_id = ?
FindEntry(rows, id, user) == {e \in rows : e.id = id /\ e.user = user}

\* PUT /api/entries/:id/comment
UpdateComment(r) ==
    LET entry == FindEntry(entries, r.id, r.user)
    IN  /\ Served
        /\ entries' = IF entry = {} THEN entries
                      ELSE UpdateCommentOf(entries, r.comment, r.id, r.user)
        /\ last' = IF entry = {} THEN Failure(r, Null, 404, "Entry not found")
                   ELSE Success(r, Null, Null, 0)
        /\ UNCHANGED nextId

-----------------------------------------------------------------------------
(* Spec: every call runs to completion before the next one arrives *)

CallClockIn ==
    \E r \in ClockInRequests : ClockIn(r) /\ UNCHANGED <<inflight, log, report, push, mail, auth>>

CallClockOut ==
    \E r \in ClockOutRequests : ClockOut(r) /\ UNCHANGED <<inflight, log, report, push, mail, auth>>

CallToggle ==
    \E r \in ToggleRequests : Toggle(r) /\ UNCHANGED <<inflight, log, report, push, mail, auth>>

CallUpdateComment ==
    \E r \in CommentRequests : UpdateComment(r) /\ UNCHANGED <<inflight, log, report, push, mail, auth>>

Next == CallClockIn \/ CallClockOut \/ CallToggle \/ CallUpdateComment

Spec == Init /\ [][Next]_vars

-----------------------------------------------------------------------------
(* SpecConc: requests overlap.  A request is received (Receive) and handled  *)
(* later (Handle); between the two any other request may be received or      *)
(* handled.  The log keeps the order of these events.                        *)

\* The requests of the concurrent clients: current clients, no timezone, no comment.
ConcRequests ==
    {r \in ClockInRequests \cup ClockOutRequests \cup ToggleRequests :
        r.date # Null /\ r.tz = Null /\ r.comment = Null}

\* GET /api/status, field checkedIn: entry?.check_in && !entry?.check_out
StatusCheckedIn(rows, user, date) == \E e \in LatestEntry(rows, user, date) : CheckedIn(e)

\* An event of the log: a request received (with what /api/status showed for its
\* user and date at that moment), or a request handled (with its answer).
Event(ev, r, checkedIn, resp) ==
    [ev |-> ev, req |-> r, checkedIn |-> checkedIn, resp |-> resp]

Issued == Cardinality({i \in DOMAIN log : log[i].ev = "received"})

Receive ==
    \E r \in ConcRequests :
        /\ Issued < MaxIssued
        /\ BagCardinality(inflight) < MaxInflight
        /\ inflight' = inflight (+) SetToBag({r})
        /\ log' = Append(log, Event("received", r,
                                 StatusCheckedIn(entries, r.user, r.date), NoResponse))
        /\ UNCHANGED <<entries, nextId, last, calls, report, push, mail, auth>>

\* express dispatches the request to the handler of its route
Dispatch(r) ==
    CASE r.op = "clock-in" -> ClockIn(r)
      [] r.op = "clock-out" -> ClockOut(r)
      [] r.op = "toggle" -> Toggle(r)
      [] r.op = "comment" -> UpdateComment(r)

Handle ==
    \E r \in BagToSet(inflight) :
        /\ Dispatch(r)
        /\ inflight' = inflight (-) SetToBag({r})
        /\ log' = Append(log, Event("handled", r,
                                 StatusCheckedIn(entries, r.user, r.date), last'))
        /\ UNCHANGED <<report, push, mail, auth>>

NextConc == Receive \/ Handle

SpecConc == Init /\ [][NextConc]_vars

-----------------------------------------------------------------------------
(* SpecDur: the duration of a toggle check-out over the times of day.  The   *)
(* store holds one open entry, clocked in at any time of DurTimes, and one   *)
(* toggle call at any time of DurTimes closes it.                            *)

DurHours == {0, 9, 17, 23}
DurMinutes == 0..59

\* String(n).padStart(2, '0') for both fields of "HH:MM"
TimeOfDay(h, m) == <<h \div 10, h % 10, m \div 10, m % 10>>

DurTimes == {TimeOfDay(h, m) : h \in DurHours, m \in DurMinutes}

InitDur ==
    /\ \E t \in DurTimes :
            entries = {Entry(1, 1, Str("2026-03-10"), t, Null, Null, Null)}
    /\ nextId = 2
    /\ last = NoResponse
    /\ calls = 0
    /\ inflight = EmptyBag
    /\ log = <<>>
    /\ auth = NoAuth
    /\ report = NoReport
    /\ push = NoPush
    /\ mail = NoMail

DurToggle ==
    \E t \in DurTimes :
        /\ last = NoResponse
        /\ Toggle(Request("toggle", 1, Str("2026-03-10"), t, Null, Null, 0))
        /\ UNCHANGED <<inflight, log, report, push, mail, auth>>

SpecDur == InitDur /\ [][DurToggle]_vars

-----------------------------------------------------------------------------
(* The vocabulary of the properties, stated on the rows themselves *)

\* An open entry: check_in set and check_out unset.
IsOpen(e) == e.check_in # Null /\ e.check_out = Null

RowsOf(rows, user, date) == {e \in rows : e.user = user /\ e.date = date}

OpenEntries(rows, user, date) == {e \in RowsOf(rows, user, date) : IsOpen(e)}

\* The most recently created entry of (user, date): the one no other is newer than.
Newest(rows, user, date) ==
    {e \in RowsOf(rows, user, date) :
        ~ \E f \in RowsOf(rows, user, date) : f.id > e.id}

\* The derived state of (user, date) is OPEN (else it is NONE).
StateOpen(rows, user, date) == \E e \in Newest(rows, user, date) : IsOpen(e)

\* Minutes since midnight of the time of day "HH:MM".
MinutesOf(t) == (10 * t[1] + t[2]) * 60 + (10 * t[3] + t[4])

\* What the call that ran last was, and how it ended.
Ran(op) == last.op = op
Accepted(op) == last.op = op /\ last.status = 200

-----------------------------------------------------------------------------
\* C1: after any sequence of clock-in, clock-out and toggle calls, each run to
\* completion before the next, every (user, date) has at most one entry with
\* check_in set and check_out unset.
C1_AtMostOneOpen ==
    \A u \in Users, d \in Dates : Cardinality(OpenEntries(entries, u, d)) <= 1

\* A second shift is open on a day that already has a closed entry.
C1_Witness ==
    \E u \in Users, d \in Dates :
        /\ Cardinality(RowsOf(entries, u, d)) = 2
        /\ Cardinality(OpenEntries(entries, u, d)) = 1
        /\ last.op \in {"clock-in", "toggle"}

-----------------------------------------------------------------------------
\* C4: a successful clock-in adds exactly one entry, owned by the caller, with the
\* date, time and timezone as sent (the server's date and time when the client
\* sent none, a null timezone when it sent none), check_out null, changes no other
\* entry, and leaves the state of (user, date) OPEN.
C4_ClockInEffect ==
    [][Accepted("clock-in")' =>
        \E e \in entries' :
            /\ e.id \notin {f.id : f \in entries}
            /\ entries' = entries \cup {e}
            /\ e.user = last'.user
            /\ e.date = (IF last'.date # Null THEN last'.date ELSE last'.today)
            /\ e.check_in = (IF last'.time # Null THEN last'.time ELSE last'.now)
            /\ e.check_out = Null
            /\ e.timezone = last'.tz
            /\ e.id = last'.entryId
            /\ StateOpen(entries', e.user, e.date)]_vars

\* A clock-in that sent its date, time and timezone was accepted while the table
\* already held another entry.
C4_Witness ==
    /\ Accepted("clock-in")
    /\ last.date # Null /\ last.time # Null /\ last.tz # Null
    /\ Cardinality(entries) = 2

-----------------------------------------------------------------------------
\* C5: clock-in for a (user, date) whose state is OPEN is rejected with
\* 'Already clocked in' and leaves the table unchanged; in every other state it
\* is accepted.
C5_ClockInRejection ==
    [][Ran("clock-in")' =>
        IF StateOpen(entries, last'.user, last'.today)
        THEN /\ last'.status = 400
             /\ last'.error = Str("Already clocked in")
             /\ entries' = entries
        ELSE /\ last'.status = 200
             /\ entries' # entries]_vars

\* A clock-in was rejected on a day whose state is OPEN.
C5_Witness ==
    /\ Ran("clock-in") /\ last.status = 400
    /\ StateOpen(entries, last.user, last.today)

-----------------------------------------------------------------------------
\* C6: clock-out for a (user, date) whose latest entry is not open is rejected and
\* leaves the table unchanged: with 'Not clocked in' when the date has no entry
\* (or the latest has no check_in), with 'Already clocked out' when the latest
\* entry has its check_out set.
C6_ClockOutRejection ==
    [][(Ran("clock-out")' /\ ~StateOpen(entries, last'.user, last'.today)) =>
        /\ last'.status = 400
        /\ entries' = entries
        /\ LET newest == Newest(entries, last'.user, last'.today)
           IN  /\ (newest = {} \/ \E e \in newest : e.check_in = Null)
                    => last'.error = Str("Not clocked in")
               /\ (\E e \in newest : e.check_in # Null /\ e.check_out # Null)
                    => last'.error = Str("Already clocked out")]_vars

\* A clock-out was rejected on a day whose latest entry is closed.
C6_Witness ==
    /\ Ran("clock-out") /\ last.error = Str("Already clocked out")
    /\ \E e \in Newest(entries, last.user, last.today) : e.check_out # Null

-----------------------------------------------------------------------------
\* C7: a successful clock-out changes only the latest entry of (user, date): it
\* sets check_out to the time, comment to the comment sent (null when none or an
\* empty one was sent) and timezone to the entry's timezone when it has one, else
\* to the timezone sent; check_in, date and owner of that entry and all other
\* entries are unchanged, and the state becomes NONE.
C7_ClockOutEffect ==
    [][Accepted("clock-out")' =>
        \E e \in Newest(entries, last'.user, last'.today) :
            LET closed == [id |-> e.id, user |-> e.user, date |-> e.date,
                           check_in |-> e.check_in,
                           check_out |-> (IF last'.time # Null THEN last'.time
                                          ELSE last'.now),
                           comment |-> (IF last'.comment = EmptyStr THEN Null
                                        ELSE last'.comment),
                           timezone |-> (IF e.timezone # Null THEN e.timezone
                                         ELSE last'.tz)]
            IN  /\ entries' = (entries \ {e}) \cup {closed}
                /\ ~StateOpen(entries', last'.user, last'.today)]_vars

\* A clock-out that sent a timezone closed an entry that had its own timezone (or
\* one that had none), while the table held another entry.
C7_Witness ==
    /\ Accepted("clock-out")
    /\ last.tz # Null /\ last.comment # Null
    /\ Cardinality(entries) = 2
    /\ \E e \in Newest(entries, last.user, last.today) :
            e.check_out = last.now /\ e.comment = last.comment

-----------------------------------------------------------------------------
\* C8: every toggle call in state NONE checks in (action 'check-in', one open
\* entry inserted) and every toggle call in state OPEN checks out (action
\* 'check-out', the open entry closed); at no point are there two open entries;
\* and the toggle that follows a toggle check-in of the same (user, date) checks
\* out the very entry the first one inserted: NONE -> OPEN -> NONE.
C8_ToggleFlips ==
    [][Ran("toggle")' =>
        LET u == last'.user
            d == last'.today
        IN  /\ IF StateOpen(entries, u, d)
               THEN /\ last'.action = Str("check-out")
                    /\ \E e \in Newest(entries, u, d) :
                        /\ last'.entryId = e.id
                        /\ \E c \in entries' :
                            /\ c.id = e.id /\ c.check_in = e.check_in
                            /\ c.check_out = last'.now
                            /\ entries' \ {c} = entries \ {e}
                    /\ ~StateOpen(entries', u, d)
               ELSE /\ last'.action = Str("check-in")
                    /\ \E e \in entries' :
                        /\ e.id \notin {f.id : f \in entries}
                        /\ entries' = entries \cup {e}
                        /\ IsOpen(e) /\ e.user = u /\ e.date = d
                        /\ e.id = last'.entryId
                    /\ StateOpen(entries', u, d)
            /\ Cardinality(OpenEntries(entries', u, d)) <= 1
            /\ (Ran("toggle") /\ last.action = Str("check-in")
                    /\ last.user = u /\ last.today = d)
                => (last'.action = Str("check-out") /\ last'.entryId = last.entryId)]_vars

\* A toggle has checked out the entry of its (user, date).
C8_Witness ==
    /\ Ran("toggle") /\ last.action = Str("check-out")
    /\ \E e \in Newest(entries, last.user, last.today) :
            e.id = last.entryId /\ e.check_out = last.now

-----------------------------------------------------------------------------
\* C9 as claimed: toggle in state OPEN leaves the table exactly as clock-out with
\* the same user, date, time and timezone and no comment would, and toggle in
\* state NONE leaves it exactly as clock-in with the same arguments would.
C9_ToggleIsClockOut ==
    [][Ran("toggle")' =>
        IF StateOpen(entries, last'.user, last'.today)
        THEN entries' = ClockOutStore(entries, last'.user, last'.today, last'.now,
                                      last'.tz, Null)
        ELSE entries' = ClockInStore(entries, nextId, last'.user, last'.today,
                                     last'.now, last'.tz)]_vars

\* C9 as amended: toggle in state OPEN sets check_out and timezone exactly as that
\* clock-out would and leaves the comment of the entry as it is (clock-out with no
\* comment sets it to null), so the two tables are equal exactly when the open
\* entry has no comment; toggle in state NONE leaves the table as clock-in would.
C9_ToggleKeepsComment ==
    [][Ran("toggle")' =>
        IF StateOpen(entries, last'.user, last'.today)
        THEN \E e \in Newest(entries, last'.user, last'.today) :
                LET out == ClockOutStore(entries, last'.user, last'.today, last'.now,
                                         last'.tz, Null)
                IN  /\ entries' = {IF f.id = e.id THEN [f EXCEPT !.comment = e.comment]
                                   ELSE f : f \in out}
                    /\ (entries' = out) <=> (e.comment = Null)
        ELSE entries' = ClockInStore(entries, nextId, last'.user, last'.today,
                                     last'.now, last'.tz)]_vars

\* A toggle has checked out an entry that carries a comment.
C9_Witness ==
    /\ Ran("toggle") /\ last.action = Str("check-out")
    /\ \E e \in entries : e.id = last.entryId /\ e.comment # Null

-----------------------------------------------------------------------------
\* C10: for check_in and check_out given as HH:MM with check_out >= check_in, the
\* duration of a toggle check-out is '{h}h {m}m' with
\* h*60 + m = (out_h*60+out_m) - (in_h*60+in_m) and 0 <= m < 60;
\* 09:00 to 17:30 gives '8h 30m'.
C10_Duration ==
    (Ran("toggle") /\ last.action = Str("check-out")
        /\ MinutesOf(last.now) >= MinutesOf(last.checkIn)) =>
        LET h == last.duration[1]
            m == last.duration[3]
        IN  /\ last.duration = <<h, "h ", m, "m">>
            /\ h * 60 + m = MinutesOf(last.now) - MinutesOf(last.checkIn)
            /\ 0 <= m /\ m < 60
            /\ (last.checkIn = <<0, 9, 0, 0>> /\ last.now = <<1, 7, 3, 0>>)
                    => last.duration = <<8, "h ", 30, "m">>

\* The toggle of 17:30 has closed the entry of 09:00.
C10_Witness ==
    /\ Ran("toggle") /\ last.action = Str("check-out")
    /\ last.checkIn = <<0, 9, 0, 0>> /\ last.now = <<1, 7, 3, 0>>
    /\ last.duration = <<8, "h ", 30, "m">>

-----------------------------------------------------------------------------
(* Properties of overlapping requests, on the log of SpecConc *)

Received(i) == log[i].ev = "received"
Handled(i) == log[i].ev = "handled"
SameDay(r, s) == r.user = s.user /\ r.date = s.date

\* C2: however clock-in and toggle requests of one (user, date) overlap, no
\* handled request leaves two open entries for a (user, date), and a request
\* inserts an entry only if the state of its (user, date) is NONE at that very
\* moment: its read of the latest entry and its write are one step.
C2_NoDoubleOpen ==
    [][(Len(log') = Len(log) + 1 /\ log'[Len(log')].ev = "handled"
            /\ log'[Len(log')].req.op \in {"clock-in", "toggle"}) =>
        LET r == log'[Len(log')].req
        IN  /\ \A u \in Users, d \in Dates :
                    Cardinality(OpenEntries(entries', u, d)) <= 1
            /\ (entries' # entries /\ nextId' # nextId)
                    => ~StateOpen(entries, r.user, r.date)
            /\ StateOpen(entries, r.user, r.date)
                    => Cardinality(entries') = Cardinality(entries)]_vars

\* Two clock-in requests of one (user, date) were in flight together; both are
\* handled, one accepted and one rejected.
C2_Witness ==
    /\ Len(log) = 4
    /\ Received(1) /\ Received(2) /\ Handled(3) /\ Handled(4)
    /\ log[1].req.op = "clock-in" /\ log[2].req.op = "clock-in"
    /\ SameDay(log[1].req, log[2].req)
    /\ log[3].resp.status = 200 /\ log[4].resp.status = 400
    /\ Cardinality(entries) = 1

\* Two toggle requests of one (user, date) are received while its state is NONE,
\* none of them handled before both are received, and then both are handled, with
\* no other request handled in between; positions i < j < k < l of the log, l its end.
TwoTogglesFromNone(i, j, k, l) ==
    /\ i < j /\ j < k /\ k < l /\ l = Len(log)
    /\ Received(i) /\ Received(j) /\ Handled(k) /\ Handled(l)
    /\ log[i].req.op = "toggle" /\ log[j].req.op = "toggle"
    /\ SameDay(log[i].req, log[j].req)
    /\ ~log[i].checkedIn /\ ~log[j].checkedIn
    /\ \A n \in (i + 1)..l : Handled(n) => n \in {k, l}
    /\ \/ log[k].req = log[i].req /\ log[l].req = log[j].req
       \/ log[k].req = log[j].req /\ log[l].req = log[i].req

\* C3 as claimed: after both toggles have been handled, exactly one entry of that
\* (user, date) is open.
C3_ExactlyOneOpen ==
    \A i, j, k, l \in DOMAIN log :
        TwoTogglesFromNone(i, j, k, l) =>
            Cardinality(OpenEntries(entries, log[i].req.user, log[i].req.date)) = 1

\* C3 as amended: the two toggles are handled one after the other; the first
\* checks in, the second checks out the entry the first inserted, and after both
\* no entry of that (user, date) is open (so never two, and not one either).
C3_SerialisedToggles ==
    \A i, j, k, l \in DOMAIN log :
        TwoTogglesFromNone(i, j, k, l) =>
            /\ OpenEntries(entries, log[i].req.user, log[i].req.date) = {}
            /\ log[k].resp.action = Str("check-in")
            /\ log[l].resp.action = Str("check-out")
            /\ log[l].resp.entryId = log[k].resp.entryId
            /\ \E e \in entries :
                    /\ e.id = log[k].resp.entryId
                    /\ e.check_in = log[k].resp.now
                    /\ e.check_out = log[l].resp.now

\* Both toggles have been handled.
C3_Witness ==
    \E i, j, k, l \in DOMAIN log : TwoTogglesFromNone(i, j, k, l)

-----------------------------------------------------------------------------
\* C11 as claimed: after a clock-in at t1, a successful clock-out at t2 >= t1 on the
\* same date answers with the duration t2 - t1 formatted '{h}h {m}m'.
C11_ClockOutDuration ==
    [][\A e \in Newest(entries, last'.user, last'.today) :
          Accepted("clock-out")' /\ MinutesOf(last'.now) >= MinutesOf(e.check_in) =>
            \E h \in 0..23, m \in 0..59 :
                /\ h * 60 + m = MinutesOf(last'.now) - MinutesOf(e.check_in)
                /\ last'.duration = <<h, "h ", m, "m">>]_vars

\* C11 as amended: the answer of that clock-out carries the check-out time t2 and
\* no duration; the entry then holds check_in = t1 and check_out = t2, the two
\* times t2 - t1 is computed from.
C11_ClockOutTimeOnly ==
    [][\A e \in Newest(entries, last'.user, last'.today) :
          Accepted("clock-out")' =>
            /\ last'.duration = Null
            /\ last'.action = Null
            /\ \E f \in entries' :
                    /\ f.id = e.id
                    /\ f.check_in = e.check_in
                    /\ f.check_out = last'.now]_vars

\* An entry clocked in at 09:45 has been clocked out at 17:30.
C11_Witness ==
    /\ Accepted("clock-out")
    /\ \E e \in Newest(entries, last.user, last.today) :
            e.check_in = <<0, 9, 4, 5>> /\ e.check_out = <<1, 7, 3, 0>>

-----------------------------------------------------------------------------
(* SpecCarry: the comment a toggle check-in carries over.  The table holds   *)
(* up to CarryRows closed entries of any user and date, each with no         *)
(* comment, an empty comment or one of two comments, and one toggle call     *)
(* checks in.                                                                *)

CarryComments == {Null, EmptyStr, Str("lunch"), Str("standup")}

\* The closed entries an id may stand for (Null: no row has that id).
CarryChoices ==
    {<<u, d, c>> : u \in Users, d \in Dates, c \in CarryComments} \cup {Null}

InitCarry ==
    /\ \E f \in [1..CarryRows -> CarryChoices] :
            entries = {Entry(i, f[i][1], f[i][2], <<0, 9, 4, 5>>, <<1, 7, 3, 0>>,
                             f[i][3], Null) : i \in {j \in 1..CarryRows : f[j] # Null}}
    /\ nextId = CarryRows + 1
    /\ last = NoResponse
    /\ calls = 0
    /\ inflight = EmptyBag
    /\ log = <<>>
    /\ auth = NoAuth
    /\ report = NoReport
    /\ push = NoPush
    /\ mail = NoMail

CarryToggle ==
    \E u \in Users, d \in Dates :
        /\ last = NoResponse
        /\ Toggle(Request("toggle", u, d, <<1, 7, 3, 0>>, Null, Null, 0))
        /\ UNCHANGED <<inflight, log, report, push, mail, auth>>

SpecCarry == InitCarry /\ [][CarryToggle]_vars

\* The entries of a user whose comment is neither null nor empty.
Commented(rows, user) ==
    {e \in rows : e.user = user /\ e.comment # Null /\ e.comment # EmptyStr}

\* Day of the month of a date of Dates.
DayOf(d) == IF d = Str("2026-03-10") THEN 10 ELSE 11

\* Entry f is at least as recent as entry e: greater date, then greater id.
AsRecent(f, e) ==
    DayOf(f.date) > DayOf(e.date) \/ (f.date = e.date /\ f.id >= e.id)

\* C12: a toggle call that checks in returns as lastComment the comment of the
\* user's most recent entry (greatest date, then greatest id, over all dates)
\* whose comment is neither null nor empty, null when the user has no such
\* entry, and never a comment of another user's entry only.
C12_LastComment ==
    Accepted("toggle") /\ last.action = Str("check-in") =>
        LET mine == Commented(entries, last.user)
        IN  IF mine = {} THEN last.lastComment = Null
            ELSE \E e \in mine :
                    /\ \A f \in mine : AsRecent(e, f)
                    /\ last.lastComment = e.comment

\* The toggle has carried over the comment of an entry of the later date although
\* the user has a newer commented entry of the earlier date, and another user
\* has a commented entry as well.
C12_Witness ==
    /\ Accepted("toggle") /\ last.action = Str("check-in")
    /\ \E e, f \in Commented(entries, last.user) :
            /\ DayOf(e.date) > DayOf(f.date) /\ f.id > e.id
            /\ e.comment # f.comment
            /\ last.lastComment = e.comment
    /\ \E u \in Users \ {last.user} : Commented(entries, u) # {}

-----------------------------------------------------------------------------
(* The Excel report (lib/excelReport.js) and GET /api/export.                *)
(* A date text "YYYY-MM-DD" is the tuple of its eight decimal digits (the    *)
(* dashes sit after the fourth and the sixth); a text such as "7" or "-30"   *)
(* is the sequence of its characters.                                        *)

\* String(n).padStart(2, '0') for 0 <= n <= 99
Pad2(n) == <<n \div 10, n % 10>>

\* `${year}-${String(month).padStart(2, '0')}-${String(day).padStart(2, '0')}`
DateText(year, month, day) ==
    <<year \div 1000, (year \div 100) % 10, (year \div 10) % 10, year % 10>>
        \o Pad2(month) \o Pad2(day)

\* SQLite compares two texts of equal length character by character.
TextLess(a, b) ==
    \E i \in DOMAIN a : a[i] < b[i] /\ \A j \in 1..(i - 1) : a[j] = b[j]

\* A JavaScript Date in local time: year, month (0..11), day of the month and
\* the seconds since midnight.
\* new Date(text + 'T00:00:00') and new Date(text + 'T23:59:59')
ParseDate(text, seconds) ==
    [year |-> 1000 * text[1] + 100 * text[2] + 10 * text[3] + text[4],
     month |-> 10 * text[5] + text[6] - 1,
     day |-> 10 * text[7] + text[8],
     time |-> seconds]

\* new Date(start.getFullYear(), start.getMonth(), 1)
FirstOfMonth(d) == [year |-> d.year, month |-> d.month, day |-> 1, time |-> 0]

\* Mutant: current.setMonth(current.getMonth() + 1) that stays in December.
SetMonthNoCarry(d, n) == [d EXCEPT !.month = IF n > 11 THEN 11 ELSE n]

\* current.setMonth(n) on a first of the month: month 12 is January of the next year.
SetMonth(d, n) == [d EXCEPT !.year = d.year + (n \div 12), !.month = n % 12]

\* a <= b for two Dates compares their time values: the earlier year, then the
\* earlier month, then the earlier day, then the earlier time of day.
NotAfter(a, b) ==
    LET x == <<a.year, a.month, a.day, a.time>>
        y == <<b.year, b.month, b.day, b.time>>
    IN  x = y \/ \E i \in 1..4 : x[i] < y[i] /\ \A j \in 1..(i - 1) : x[j] = y[j]

monthNames ==
    <<"January", "February", "March", "April", "May", "June",
      "July", "August", "September", "October", "November", "December">>

\* { year: current.getFullYear(), month: current.getMonth() + 1, monthName: ... }
MonthInfo(current) ==
    [year |-> current.year, month |-> current.month + 1,
     monthName |-> monthNames[current.month + 1]]

IsLeapYear(year) == (year % 4 = 0 /\ year % 100 # 0) \/ year % 400 = 0

\* new Date(year, month, 0).getDate(): day 0 of the next month is the last day of
\* this month (month is 1..12).
DaysInMonth(year, month) ==
    IF month = 2 THEN (IF IsLeapYear(year) THEN 29 ELSE 28)
    ELSE IF month \in {4, 6, 9, 11} THEN 30 ELSE 31

\* new Date(year, month - 1, day).getDay(): 0 is Sunday, 6 is Saturday.
GetDay(year, month, day) ==
    LET t == <<0, 3, 2, 5, 0, 3, 5, 1, 4, 6, 2, 4>>
        y == IF month < 3 THEN year - 1 ELSE year
    IN  (y + (y \div 4) - (y \div 100) + (y \div 400) + t[month] + day) % 7

weekdays ==
    <<"Sunday", "Monday", "Tuesday", "Wednesday", "Thursday", "Friday", "Saturday">>

\* _getWeekdayName(dayNum)
GetWeekdayName(dayNum) == weekdays[dayNum + 1]

\* n.toString() for an integer n, as the sequence of its characters
RECURSIVE Digits(_)
Digits(n) ==
    LET c == <<"0", "1", "2", "3", "4", "5", "6", "7", "8", "9">>
    IN  IF n < 10 THEN <<c[n + 1]>> ELSE Digits(n \div 10) \o <<c[(n % 10) + 1]>>

NumberToString(n) == IF n < 0 THEN <<"-">> \o Digits(-n) ELSE Digits(n)

\* text.padStart(2, '0')
PadStart2(text) == IF Len(text) >= 2 THEN text ELSE <<"0">> \o text

\* `${hours}:${mins.toString().padStart(2, '0')}` with hours = Math.floor(minutes / 60)
\* and mins = minutes % 60
HoursMinutes(minutes) ==
    <<FloorDiv(minutes, MinutesPerHour), ":",
      PadStart2(NumberToString(JsRem(minutes, MinutesPerHour)))>>

\* _createMonthSheet: the minutes of a day that has an entry
EntryMinutes(entry) ==
    IF Truthy(entry.check_in) /\ Truthy(entry.check_out)
    THEN LET i == SplitNumber(entry.check_in)
             o == SplitNumber(entry.check_out)
         IN  (o[1] * 60 + o[2]) - (i[1] * 60 + i[2])
    ELSE 0

\* Mutant: the weekend mark is put on every day without an entry.
DayRowMarksEveryDay(year, month, day, entriesMap) ==
    LET date == DateText(year, month, day)
    IN  IF date \in DOMAIN entriesMap
        THEN [date |-> date, weekday |-> GetWeekdayName(GetDay(year, month, day)),
              checkIn |-> JsOr(entriesMap[date].check_in, EmptyStr),
              checkOut |-> JsOr(entriesMap[date].check_out, EmptyStr),
              total |-> IF Truthy(entriesMap[date].check_in)
                           /\ Truthy(entriesMap[date].check_out)
                        THEN HoursMinutes(EntryMinutes(entriesMap[date])) ELSE EmptyStr,
              comment |-> JsOr(entriesMap[date].comment, EmptyStr)]
        ELSE [date |-> date, weekday |-> GetWeekdayName(GetDay(year, month, day)),
              checkIn |-> Str("---"), checkOut |-> Str("---"),
              total |-> EmptyStr, comment |-> EmptyStr]

\* _createMonthSheet: the row of one day, [date, weekday, checkIn, checkOut, total, comment]
DayRow(year, month, day, entriesMap) ==
    LET date == DateText(year, month, day)
        dayNum == GetDay(year, month, day)
        isWeekend == dayNum = 0 \/ dayNum = 6
        mark == IF isWeekend THEN Str("---") ELSE EmptyStr
    IN  IF date \in DOMAIN entriesMap
        THEN LET entry == entriesMap[date]
             IN  [date |-> date, weekday |-> GetWeekdayName(dayNum),
                  checkIn |-> JsOr(entry.check_in, EmptyStr),
                  checkOut |-> JsOr(entry.check_out, EmptyStr),
                  total |-> IF Truthy(entry.check_in) /\ Truthy(entry.check_out)
                            THEN HoursMinutes(EntryMinutes(entry)) ELSE EmptyStr,
                  comment |-> JsOr(entry.comment, EmptyStr)]
        ELSE [date |-> date, weekday |-> GetWeekdayName(dayNum),
              checkIn |-> mark, checkOut |-> mark,
              total |-> EmptyStr, comment |-> EmptyStr]

\* totalMinutesMonth after the days 1..day
RECURSIVE TotalMinutesMonth(_, _, _, _)
TotalMinutesMonth(year, month, day, entriesMap) ==
    IF day = 0 THEN 0
    ELSE TotalMinutesMonth(year, month, day - 1, entriesMap)
            + (IF DateText(year, month, day) \in DOMAIN entriesMap
               THEN EntryMinutes(entriesMap[DateText(year, month, day)]) ELSE 0)

\* _createMonthSheet(workbook, monthInfo, entriesMap): the sheet's name, its day
\* rows and its TOTAL row
CreateMonthSheet(monthInfo, entriesMap) ==
    LET daysInMonth == DaysInMonth(monthInfo.year, monthInfo.month)
    IN  [name |-> <<monthInfo.monthName, monthInfo.year>>,
         rows |-> [day \in 1..daysInMonth |->
                        DayRow(monthInfo.year, monthInfo.month, day, entriesMap)],
         total |-> HoursMinutes(TotalMinutesMonth(monthInfo.year, monthInfo.month,
                                                  daysInMonth, entriesMap))]

-----------------------------------------------------------------------------
(* SpecReport: one GET /api/export.  The table holds up to ReportRows        *)
(* entries; the request names a range of months or none.  The loop of        *)
(* _getMonthsInRange is taken one iteration at a time.                       *)

ReportDates ==
    {DateText(2023, 12, 30), DateText(2024, 2, 29), DateText(2024, 3, 3)}

\* check_in, check_out and comment of an entry: a closed shift, an open one, and
\* one whose check-out time is earlier than its check-in time.
ReportShifts ==
    {<<(<<0, 9, 4, 5>>), (<<1, 7, 3, 0>>), Str("lunch")>>,
     <<(<<0, 9, 4, 5>>), Null, Null>>,
     <<(<<1, 7, 3, 0>>), (<<1, 7, 0, 0>>), Null>>}

\* The entries an id may stand for (Null: no row has that id).
ReportChoices ==
    {<<1, d, sh>> : d \in ReportDates, sh \in ReportShifts}
        \cup {<<2, d, <<(<<0, 9, 4, 5>>), (<<1, 7, 3, 0>>), Str("lunch")>>>> :
                d \in ReportDates}
        \cup {Null}

\* The query of an export: { startMonth, startYear, endMonth, endYear }, or Null
\* when the request names no range.
ReportMonths == {<<2023, 12>>, <<2024, 1>>, <<2024, 2>>, <<2024, 3>>}
ExportQueries ==
    {[startYear |-> a[1], startMonth |-> a[2], endYear |-> b[1], endMonth |-> b[2]] :
        a \in ReportMonths, b \in ReportMonths} \cup {Null}

InitReport ==
    /\ \E f \in [1..ReportRows -> ReportChoices] :
            entries = {Entry(i, f[i][1], f[i][2], f[i][3][1], f[i][3][2], f[i][3][3],
                             Null) : i \in {j \in 1..ReportRows : f[j] # Null}}
    /\ nextId = ReportRows + 1
    /\ last = NoResponse
    /\ calls = 0
    /\ inflight = EmptyBag
    /\ log = <<>>
    /\ auth = NoAuth
    /\ report = NoReport
    /\ push = NoPush
    /\ mail = NoMail

\* SELECT MIN(date) as minDate, MAX(date) as maxDate FROM entries WHERE user_id = ?
\* (the empty set when the user has no entry)
\* Mutant: the WHERE clause of the range query forgets user_id.
MinDateAnyUser(rows, user) ==
    {e.date : e \in {e \in rows : \A f \in rows : ~TextLess(f.date, e.date)}}

MinDate(rows, user) ==
    {e.date : e \in {e \in rows : e.user = user
                        /\ \A f \in rows : f.user = user => ~TextLess(f.date, e.date)}}
MaxDate(rows, user) ==
    {e.date : e \in {e \in rows : e.user = user
                        /\ \A f \in rows : f.user = user => ~TextLess(e.date, f.date)}}

\* SELECT * FROM entries WHERE user_id = ? AND date >= ? AND date <= ?
ReportEntries(rows, user, startDate, endDate) ==
    {e \in rows :
        e.user = user /\ ~TextLess(e.date, startDate) /\ ~TextLess(endDate, e.date)}

\* entries.forEach(entry => entriesMap.set(entry.date, entry)): of the entries of
\* one date the map keeps the one the query returned last; ORDER BY date ASC leaves
\* the order of the entries of one date open.
EntriesMaps(rows) ==
    {m \in [{e.date : e \in rows} -> rows] : \A d \in DOMAIN m : m[d].date = d}

\* workbook.addWorksheet('No Data')
NoDataSheet == [name |-> <<"No Data">>, rows |-> <<>>, total |-> Null]

\* GET /api/export up to the loop of _getMonthsInRange: the range, the 404 of a
\* user without entries, the query of generateReport and the start of the loop.
ExportRequest ==
    \E user \in Users, q \in ExportQueries :
        /\ report.pc = "idle"
        /\ IF q = Null /\ (MinDate(entries, user) = {} \/ MaxDate(entries, user) = {})
           THEN report' = [pc |-> "done", user |-> user, query |-> q, status |-> 404,
                           error |-> Str("No entries found"), sheets |-> <<>>]
           ELSE LET startDate == IF q # Null
                                 THEN DateText(q.startYear, q.startMonth, 1)
                                 ELSE CHOOSE d \in MinDate(entries, user) : TRUE
                    endDate == IF q # Null
                               THEN DateText(q.endYear, q.endMonth,
                                             DaysInMonth(q.endYear, q.endMonth))
                               ELSE CHOOSE d \in MaxDate(entries, user) : TRUE
                    start == ParseDate(startDate, 0)
                    end == ParseDate(endDate, 86399)
                IN  \E m \in EntriesMaps(ReportEntries(entries, user, startDate, endDate)) :
                        report' = [pc |-> "months", user |-> user, query |-> q,
                                   startDate |-> startDate, endDate |-> endDate,
                                   entriesMap |-> m, current |-> FirstOfMonth(start),
                                   end |-> end, months |-> <<>>]
        /\ UNCHANGED <<entries, nextId, last, calls, inflight, log, push, mail, auth>>

\* _getMonthsInRange: one iteration of  while (current <= end)
MonthStep ==
    /\ report.pc = "months"
    /\ NotAfter(report.current, report.end)
    /\ Len(report.months) < MaxMonths
    /\ report' = [report EXCEPT
                    !.months = Append(report.months, MonthInfo(report.current)),
                    !.current = SetMonth(report.current, report.current.month + 1)]
    /\ UNCHANGED <<entries, nextId, last, calls, inflight, log, push, mail, auth>>

\* The loop ends; generateReport creates one sheet per month (a 'No Data' sheet
\* when there is no month) and the handler sends the workbook.
ExportFinish ==
    /\ report.pc = "months"
    /\ ~NotAfter(report.current, report.end)
    /\ LET sheets == [i \in 1..Len(report.months) |->
                        CreateMonthSheet(report.months[i], report.entriesMap)]
       IN  report' = [pc |-> "done", user |-> report.user, query |-> report.query,
                      startDate |-> report.startDate, endDate |-> report.endDate,
                      entriesMap |-> report.entriesMap, months |-> report.months,
                      status |-> 200, error |-> Null,
                      sheets |-> IF Len(sheets) = 0 THEN <<NoDataSheet>> ELSE sheets]
    /\ UNCHANGED <<entries, nextId, last, calls, inflight, log, push, mail, auth>>

NextReport == ExportRequest \/ MonthStep \/ ExportFinish

SpecReport == InitReport /\ [][NextReport]_vars

-----------------------------------------------------------------------------
(* The calendar the properties of the report are stated in: the day number   *)
(* of a date (days counted from a fixed day long ago; day number 0 is a      *)
(* Monday).                                                                  *)

DayNumber(year, month, day) ==
    LET a == (14 - month) \div 12
        y == year + 4800 - a
        m == month + 12 * a - 3
    IN  day + ((153 * m + 2) \div 5) + 365 * y + (y \div 4) - (y \div 100)
            + (y \div 400) - 32045

IsSaturdayOrSunday(year, month, day) == DayNumber(year, month, day) % 7 \in {5, 6}

\* Number of days of a calendar month.
CalendarDays(year, month) ==
    IF month = 12 THEN DayNumber(year + 1, 1, 1) - DayNumber(year, 12, 1)
    ELSE DayNumber(year, month + 1, 1) - DayNumber(year, month, 1)

\* Year, month and day a date text "YYYY-MM-DD" denotes.
YearOf(text) == 1000 * text[1] + 100 * text[2] + 10 * text[3] + text[4]
MonthOf(text) == 10 * text[5] + text[6]
DayOfMonth(text) == 10 * text[7] + text[8]

\* Months counted from year 0.
MonthIndex(text) == YearOf(text) * 12 + MonthOf(text) - 1

\* The export has answered with a workbook.
Exported == report.pc = "done" /\ report.status = 200

\* The rows of the requesting user dated in a given month, or on a given day.
EntriesOfMonth(year, month) ==
    {e \in entries : e.user = report.user /\ YearOf(e.date) = year
                        /\ MonthOf(e.date) = month}
EntriesOfDay(year, month, day) ==
    {e \in EntriesOfMonth(year, month) : DayOfMonth(e.date) = day}

\* Months from the current month of the loop to the month of the end of the range,
\* both included.
MonthsLeft(r) ==
    MonthIndex(r.endDate) - (r.current.year * 12 + r.current.month) + 1

\* C13: for every startDate <= endDate the report has exactly one month group for
\* each calendar month overlapping [startDate, endDate], in chronological order,
\* none repeated and none skipped, whether or not the month has entries; and the
\* enumeration of the months terminates: the number of months from the loop's
\* current month to the end of the range is never negative when an iteration
\* starts, and every iteration makes it smaller.
C13_MonthGroups ==
    /\ [](Exported /\ ~TextLess(report.endDate, report.startDate) =>
            LET first == MonthIndex(report.startDate)
                n == MonthIndex(report.endDate) - first + 1
            IN  /\ Len(report.sheets) = n
                /\ \A i \in 1..n :
                      /\ report.months[i].year = (first + i - 1) \div 12
                      /\ report.months[i].month = ((first + i - 1) % 12) + 1
                      /\ report.sheets[i].name =
                            <<monthNames[((first + i - 1) % 12) + 1],
                              (first + i - 1) \div 12>>)
    /\ [][report.pc = "months" /\ report'.pc = "months" =>
            /\ MonthsLeft(report) > 0
            /\ MonthsLeft(report') < MonthsLeft(report)]_vars

\* A report from December 2023 to February 2024 has three groups, and the user has
\* no entry in January.
C13_Witness ==
    /\ Exported
    /\ MonthIndex(report.startDate) = 2023 * 12 + 11
    /\ MonthIndex(report.endDate) = 2024 * 12 + 1
    /\ Len(report.sheets) = 3
    /\ EntriesOfMonth(2024, 1) = {}

\* C14: each month group has exactly one row per calendar day of the month, dates
\* 1..daysInMonth in order; a day with no entry has empty check-in and check-out
\* from Monday to Friday and '---' in both on Saturday and Sunday; a day with an
\* entry shows the values of an entry of that day, also on a weekend.
C14_DayRows ==
    Exported /\ ~TextLess(report.endDate, report.startDate) =>
        \A i \in 1..Len(report.sheets) :
            LET year == report.months[i].year
                month == report.months[i].month
                rows == report.sheets[i].rows
            IN  /\ DOMAIN rows = 1..CalendarDays(year, month)
                /\ Len(rows) \in 28..31
                /\ \A day \in DOMAIN rows :
                      /\ YearOf(rows[day].date) = year
                      /\ MonthOf(rows[day].date) = month
                      /\ DayOfMonth(rows[day].date) = day
                      /\ IF EntriesOfDay(year, month, day) = {}
                         THEN IF IsSaturdayOrSunday(year, month, day)
                              THEN rows[day].checkIn = Str("---")
                                    /\ rows[day].checkOut = Str("---")
                              ELSE rows[day].checkIn = EmptyStr
                                    /\ rows[day].checkOut = EmptyStr
                         ELSE \E e \in EntriesOfDay(year, month, day) :
                                /\ rows[day].checkIn = e.check_in
                                /\ rows[day].checkOut =
                                      (IF e.check_out = Null THEN EmptyStr
                                       ELSE e.check_out)

\* The report of December 2023 shows an entry on Saturday the 30th; Sunday the
\* 31st and Friday the 29th have no entry.
C14_Witness ==
    /\ Exported
    /\ \E i \in 1..Len(report.months) :
            /\ report.months[i].year = 2023 /\ report.months[i].month = 12
            /\ EntriesOfDay(2023, 12, 30) # {}
            /\ EntriesOfDay(2023, 12, 31) = {}
            /\ EntriesOfDay(2023, 12, 29) = {}
            /\ report.sheets[i].rows[30].checkIn = <<0, 9, 4, 5>>

\* Minutes a day row shows: check-out minus check-in when both are times, else 0.
RowMinutes(row) ==
    IF Len(row.checkIn) = 4 /\ Len(row.checkOut) = 4
    THEN MinutesOf(row.checkOut) - MinutesOf(row.checkIn)
    ELSE 0

RECURSIVE SumRowMinutes(_, _)
SumRowMinutes(rows, n) ==
    IF n = 0 THEN 0 ELSE SumRowMinutes(rows, n - 1) + RowMinutes(rows[n])

\* C15: the TOTAL row of each month group is the sum of the minutes of the day
\* rows of that month, rendered 'H:MM' with H = floor(sum / 60) and MM = sum mod 60
\* in two digits; a day whose entry has no check_out adds 0 and shows an empty total.
C15_Total ==
    Exported /\ ~TextLess(report.endDate, report.startDate) =>
        \A i \in 1..Len(report.sheets) :
            LET rows == report.sheets[i].rows
                sum == SumRowMinutes(rows, Len(rows))
            IN  /\ report.sheets[i].total =
                      <<sum \div 60, ":", PadStart2(Digits(sum % 60))>>
                /\ \A day \in DOMAIN rows :
                      rows[day].checkOut = EmptyStr => rows[day].total = EmptyStr

\* C16: an export without a month range reports on [MIN(date), MAX(date)] over the
\* entries of the requesting user, and when that user has no entry it answers 404
\* 'No entries found' and generates no report.
C16_DefaultRange ==
    report.pc # "idle" /\ report.query = Null =>
        LET mine == {e \in entries : e.user = report.user}
        IN  IF mine = {}
            THEN /\ report.pc = "done" /\ report.status = 404
                 /\ report.error = Str("No entries found")
                 /\ report.sheets = <<>>
            ELSE /\ \E e \in mine : e.date = report.startDate
                 /\ \E e \in mine : e.date = report.endDate
                 /\ \A e \in mine :
                        /\ MonthIndex(e.date) * 32 + DayOfMonth(e.date) >=
                             MonthIndex(report.startDate) * 32
                                + DayOfMonth(report.startDate)
                        /\ MonthIndex(e.date) * 32 + DayOfMonth(e.date) <=
                             MonthIndex(report.endDate) * 32
                                + DayOfMonth(report.endDate)
                 /\ report.pc = "done" => report.status = 200

\* A user without entries has asked for an export with no range, while the other
\* user has entries.
C16_Witness ==
    /\ report.pc = "done" /\ report.query = Null /\ report.status = 404
    /\ \E e \in entries : e.user # report.user

-----------------------------------------------------------------------------
(* SpecPush: the reminder timer.  checkReminders runs on every tick; it is   *)
(* synchronous up to the calls of webpush.sendNotification, whose promises   *)
(* settle later, one at a time, in any order.                                *)

\* const reminderTime = user.reminder_time || '20:00'
DefaultReminderTime == <<2, 0, 0, 0>>

\* What now.toTimeString().slice(0, 5) may show on a tick.
TickTimes == {<<1, 8, 3, 0>>, DefaultReminderTime}

Endpoints == {Str("https://push.example/a"), Str("https://push.example/b")}

\* The outcome of a send: delivered (201), or rejected with the status code of
\* the push service.
Delivered == 201
Gone == 410
PushStatuses == {Delivered, Gone, 500}

\* Rows reminder_time and reminder_enabled of table settings for one user (Null:
\* no such row, or a NULL value), as POST /api/settings leaves them.
NoSettings == [reminder_time |-> Null, reminder_enabled |-> Null]
SettingsChoices ==
    {NoSettings}
        \cup {[reminder_time |-> t, reminder_enabled |-> e] :
                t \in {Null, <<1, 8, 3, 0>>}, e \in {Str("true"), Str("false")}}

\* The settings, the subscriptions and the entries a behaviour of SpecPush starts from.
PushSettings ==
    {f \in [Users -> SettingsChoices] :
        f[2] \in {NoSettings,
                  [reminder_time |-> Null, reminder_enabled |-> Str("false")],
                  [reminder_time |-> <<1, 8, 3, 0>>, reminder_enabled |-> Str("true")]}}

\* INSERT OR REPLACE INTO subscriptions (user_id, endpoint, keys): endpoint is
\* UNIQUE, so an endpoint has no row or one row, of one user.  id INTEGER PRIMARY
\* KEY AUTOINCREMENT: the rows of a start state have the ids 1 and 2.
PushSubscriptions ==
    {{[id |-> IF e = Str("https://push.example/a") THEN 1 ELSE 2,
       user |-> f[e], endpoint |-> e, keys |-> Str("{}")] :
            e \in {x \in Endpoints : f[x] # 0}} : f \in [Endpoints -> {0} \cup Users]}

\* The entries of 2026-03-10: user 1 has none, an open one or a closed one, user 2
\* has none or an open one.
PushEntries ==
    {a \cup b :
        a \in {{}, {Entry(1, 1, Str("2026-03-10"), <<0, 9, 4, 5>>, Null, Null, Null)},
               {Entry(1, 1, Str("2026-03-10"), <<0, 9, 4, 5>>, <<1, 7, 3, 0>>, Null, Null)}},
        b \in {{}, {Entry(2, 2, Str("2026-03-10"), <<0, 9, 4, 5>>, Null, Null, Null)}}}

InitPush ==
    /\ entries \in PushEntries
    /\ nextId = 3
    /\ last = NoResponse
    /\ calls = 0
    /\ inflight = EmptyBag
    /\ log = <<>>
    /\ auth = NoAuth
    /\ report = NoReport
    /\ mail = NoMail
    /\ \E st \in PushSettings, subs \in PushSubscriptions :
            push = [ticks |-> 0, settings |-> st, subscriptions |-> subs,
                    nextSub |-> Cardinality(Endpoints) + 1,
                    pending |-> {}, event |-> [kind |-> "none"]]

\* Mutant: WHERE s2.value = 'true'
ReminderEnabledOnlyTrue(value) == value = Str("true")

\* WHERE s2.value = 'true' OR s2.value IS NULL
ReminderEnabled(value) == value = Str("true") \/ value = Null

\* checkReminders: the subscriptions a tick sends to
ReminderSends(rows, settings, subs, currentTime, today) ==
    {s \in subs :
        /\ ReminderEnabled(settings[s.user].reminder_enabled)
        /\ currentTime = JsOr(settings[s.user].reminder_time, DefaultReminderTime)
        /\ \E e \in LatestEntry(rows, s.user, today) : CheckedIn(e)}

\* setInterval(checkReminders, 60000): one tick
CheckReminders ==
    \E currentTime \in TickTimes, today \in ServerDates :
        LET sends == ReminderSends(entries, push.settings, push.subscriptions,
                                   currentTime, today)
        IN  /\ push.ticks < MaxTicks
            /\ push' = [push EXCEPT
                          !.ticks = push.ticks + 1,
                          !.pending = push.pending \cup
                                {[endpoint |-> s.endpoint, tick |-> push.ticks + 1,
                                  sub |-> s.id] : s \in sends},
                          !.event = [kind |-> "tick", time |-> currentTime,
                                     today |-> today,
                                     sends |-> {s.endpoint : s \in sends}]]
            /\ UNCHANGED <<entries, nextId, last, calls, inflight, log, report, mail, auth>>

\* Mutant: the subscription is deleted whatever the error is.
OnPushErrorDeletesAlways(subs, endpoint, statusCode) ==
    {s \in subs : s.endpoint # endpoint}

\* .catch(err => { if (err.statusCode === 410) DELETE FROM subscriptions WHERE endpoint = ? })
OnPushError(subs, endpoint, statusCode) ==
    IF statusCode = Gone THEN {s \in subs : s.endpoint # endpoint} ELSE subs

\* The promise of one send settles: it resolves, or it rejects and the catch runs.
PushResult ==
    \E p \in push.pending, statusCode \in PushStatuses :
        /\ push' = [push EXCEPT
                      !.pending = push.pending \ {p},
                      !.subscriptions =
                            IF statusCode = Delivered THEN push.subscriptions
                            ELSE OnPushError(push.subscriptions, p.endpoint, statusCode),
                      !.event = [kind |-> "result", endpoint |-> p.endpoint,
                                 tick |-> p.tick, sub |-> p.sub, status |-> statusCode]]
        /\ UNCHANGED <<entries, nextId, last, calls, inflight, log, report, mail, auth>>

NextPush == CheckReminders \/ PushResult

SpecPush == InitPush /\ [][NextPush]_vars

\* C17: on each tick a push notification is sent to a subscription if and only if
\* its owner has reminders enabled (setting 'true' or unset), the current HH:MM is
\* the owner's reminder time (20:00 when unset) and the owner's latest entry of
\* today is open; then every subscription of that user is sent to, and a user with
\* reminder_enabled 'false' or with no open entry is not notified.
C17_ReminderSends ==
    push.event.kind = "tick" =>
        \A s \in push.subscriptions :
            s.endpoint \in push.event.sends <=>
                /\ push.settings[s.user].reminder_enabled \in {Str("true"), Null}
                /\ push.event.time =
                     (IF push.settings[s.user].reminder_time = Null THEN <<2, 0, 0, 0>>
                      ELSE push.settings[s.user].reminder_time)
                /\ StateOpen(entries, s.user, push.event.today)

\* A tick at 20:00 has sent to both subscriptions of user 1, who has no settings
\* and an open entry; an earlier tick sent nothing.
C17_Witness ==
    /\ push.event.kind = "tick" /\ push.ticks = 2
    /\ push.event.time = <<2, 0, 0, 0>>
    /\ push.settings[1] = NoSettings
    /\ Cardinality(push.event.sends) = 2
    /\ \A s \in push.subscriptions : s.user = 1
    /\ \A p \in push.pending : p.tick = 2

\* C18: when a send fails with status 410 the subscription with that endpoint is
\* deleted; when it fails with another status the subscriptions are unchanged;
\* nothing is sent again by the failure; the other sends of the tick stay under
\* way; and the next tick can run.
C18_PushFailure ==
    /\ [][push'.event.kind = "result" /\ push'.event.status # 201 =>
            /\ push'.subscriptions =
                 (IF push'.event.status = 410
                  THEN {s \in push.subscriptions : s.endpoint # push'.event.endpoint}
                  ELSE push.subscriptions)
            /\ push'.pending =
                    {p \in push.pending : ~(p.endpoint = push'.event.endpoint
                                                /\ p.tick = push'.event.tick)}
            /\ Cardinality(push'.pending) = Cardinality(push.pending) - 1
            /\ push'.ticks = push.ticks]_vars
    /\ [](push.ticks < MaxTicks => ENABLED CheckReminders)

\* A send has failed with 410 and its subscription is gone, while the send to the
\* other subscription of the tick is still under way and its row is still there.
C18_Witness ==
    /\ push.event.kind = "result" /\ push.event.status = 410
    /\ ~ \E s \in push.subscriptions : s.endpoint = push.event.endpoint
    /\ \E p \in push.pending :
            /\ p.tick = push.event.tick /\ p.endpoint # push.event.endpoint
            /\ \E s \in push.subscriptions : s.endpoint = p.endpoint

-----------------------------------------------------------------------------
(* SpecMail: one run of sendAllMonthlyReports (lib/emailReports.js).  The    *)
(* run awaits sendReportToUser for one user after the other; each await is   *)
(* one step.                                                                 *)

MailUsers == {1, 2, 3}

\* Column email of table users: user 2 has no email on file.
Emails == [u \in MailUsers |-> IF u = 2 THEN Null ELSE Str("user@example.org")]

\* new Date() at the start of a run: getFullYear() and getMonth() (0..11)
MailNows == {[year |-> 2024, month |-> m] : m \in 0..11}

\* The dates of the entries of one user: none, one day of December 2023, one day of
\* February 2024, or a day of February and a day of March 2024.
MailDates ==
    {{}, {DateText(2023, 12, 30)}, {DateText(2024, 2, 29)},
     {DateText(2024, 2, 29), DateText(2024, 3, 3)}}

InitMail ==
    /\ \E f \in [MailUsers -> MailDates] :
            entries = UNION {{Entry(10 * u + d[8], u, d, <<0, 9, 4, 5>>, <<1, 7, 3, 0>>,
                                    Null, Null) : d \in f[u]} : u \in MailUsers}
    /\ nextId = 40
    /\ last = NoResponse
    /\ calls = 0
    /\ inflight = EmptyBag
    /\ log = <<>>
    /\ auth = NoAuth
    /\ report = NoReport
    /\ push = NoPush
    /\ \E enabled \in BOOLEAN : mail = [pc |-> "idle", enabled |-> enabled]

\* Mutant: January is not handled (month 0 of the same year).
PreviousMonthNoJanuary(now) == [year |-> now.year, month |-> now.month]

\* let month = now.getMonth(); if (month === 0) { month = 12; year -= 1; }
PreviousMonth(now) ==
    IF now.month = 0 THEN [year |-> now.year - 1, month |-> 12]
    ELSE [year |-> now.year, month |-> now.month]

\* _getUsersWithActivity(year, month): SELECT DISTINCT u.id ... WHERE e.date >= ?
\* AND e.date <= ?  with the texts YYYY-MM-01 and YYYY-MM-31
GetUsersWithActivity(rows, year, month) ==
    {u \in MailUsers :
        \E e \in rows :
            /\ e.user = u
            /\ ~TextLess(e.date, DateText(year, month, 1))
            /\ ~TextLess(DateText(year, month, 31), e.date)}

\* The orders in which the query may return a set of users.
RECURSIVE Orders(_)
Orders(S) ==
    IF S = {} THEN {<<>>}
    ELSE UNION {{<<u>> \o t : t \in Orders(S \ {u})} : u \in S}

\* _getMonthsInRange as a whole: the months from current up to end
RECURSIVE GetMonthsInRange(_, _, _)
GetMonthsInRange(current, end, months) ==
    IF NotAfter(current, end) /\ Len(months) < MaxMonths
    THEN GetMonthsInRange(SetMonth(current, current.month + 1), end,
                          Append(months, MonthInfo(current)))
    ELSE months

\* generateMonthlyReport(userId, year, month): the sheets of the workbook
GenerateMonthlyReport(rows, user, year, month) ==
    LET startDate == DateText(year, month, 1)
        endDate == DateText(year, month, DaysInMonth(year, month))
        months == GetMonthsInRange(FirstOfMonth(ParseDate(startDate, 0)),
                                   ParseDate(endDate, 86399), <<>>)
        entriesMap == CHOOSE m \in EntriesMaps(ReportEntries(rows, user, startDate,
                                                             endDate)) : TRUE
    IN  [i \in 1..Len(months) |-> CreateMonthSheet(months[i], entriesMap)]

\* sendReportToUser(user, year, month): its result, given whether sendMail succeeds.
\* reportBuffer is what generateMonthlyReport returns: generateReport ends with
\* `return buffer` of workbook.xlsx.writeBuffer() on every path (a 'No Data' sheet
\* when there is no month), an object, so `if (!reportBuffer)` is never taken and
\* no result has the reason 'no_entries'.
SendReportToUser(enabled, email, delivered) ==
    IF ~enabled THEN [success |-> FALSE, reason |-> "email_not_configured"]
    ELSE IF ~Truthy(email) THEN [success |-> FALSE, reason |-> "no_email"]
    ELSE IF delivered THEN [success |-> TRUE, reason |-> ""]
    ELSE [success |-> FALSE, reason |-> "send_failed"]

\* Mutant: only a failed send counts as skipped.
TallyOnlySendFailed(sent, skipped, result) ==
    IF result.success THEN <<sent + 1, skipped>>
    ELSE IF result.reason = "send_failed" THEN <<sent, skipped + 1>>
    ELSE <<sent, skipped>>

\* if (result.success) { sent++; } else { skipped++; }
Tally(sent, skipped, result) ==
    IF result.success THEN <<sent + 1, skipped>> ELSE <<sent, skipped + 1>>

\* sendAllMonthlyReports up to its loop
StartMonthlyReports ==
    \E now \in MailNows :
        LET prev == PreviousMonth(now)
        IN  /\ mail.pc = "idle"
            /\ \E users \in Orders(GetUsersWithActivity(entries, prev.year, prev.month)) :
                    mail' = [pc |-> "running", enabled |-> mail.enabled, now |-> now,
                             year |-> prev.year, month |-> prev.month,
                             usersWithActivity |-> users, sent |-> 0, skipped |-> 0,
                             details |-> <<>>, outbox |-> <<>>]
            /\ UNCHANGED <<entries, nextId, last, calls, inflight, log, report, push, auth>>

\* One iteration of  for (const user of usersWithActivity): sendReportToUser is
\* awaited; transporter.sendMail resolves or rejects.
SendNextReport ==
    \E delivered \in BOOLEAN :
        /\ mail.pc = "running"
        /\ Len(mail.details) < Len(mail.usersWithActivity)
        /\ LET user == mail.usersWithActivity[Len(mail.details) + 1]
               reportBuffer == GenerateMonthlyReport(entries, user, mail.year, mail.month)
               result == SendReportToUser(mail.enabled, Emails[user], delivered)
               tally == Tally(mail.sent, mail.skipped, result)
           IN  mail' = [mail EXCEPT
                          !.sent = tally[1],
                          !.skipped = tally[2],
                          !.details = Append(mail.details,
                                             [user |-> user, email |-> Emails[user],
                                              success |-> result.success,
                                              reason |-> result.reason]),
                          !.outbox =
                              IF result.success
                              THEN Append(mail.outbox,
                                     [to |-> Emails[user],
                                      subject |-> <<monthNames[mail.month], mail.year>>,
                                      sheets |-> reportBuffer])
                              ELSE mail.outbox]
        /\ UNCHANGED <<entries, nextId, last, calls, inflight, log, report, push, auth>>

\* return { sent, skipped, details }
FinishMonthlyReports ==
    /\ mail.pc = "running"
    /\ Len(mail.details) = Len(mail.usersWithActivity)
    /\ mail' = [mail EXCEPT !.pc = "done"]
    /\ UNCHANGED <<entries, nextId, last, calls, inflight, log, report, push, auth>>

NextMail == StartMonthlyReports \/ SendNextReport \/ FinishMonthlyReports

SpecMail == InitMail /\ [][NextMail]_vars

\* The users of the run, as a set.
Attempted == {mail.usersWithActivity[i] : i \in DOMAIN mail.usersWithActivity}

\* C19: a run of sendAllMonthlyReports at a time in month m of year y reports on
\* the month before, (y, m - 1) for m = 2..12 and (y - 1, 12) for m = 1, and
\* processes exactly the users with at least one entry dated in that month.
C19_PreviousMonth ==
    mail.pc # "idle" =>
        LET m == mail.now.month + 1
            y == mail.now.year
        IN  /\ mail.year = (IF m = 1 THEN y - 1 ELSE y)
            /\ mail.month = (IF m = 1 THEN 12 ELSE m - 1)
            /\ Attempted =
                  {u \in MailUsers : \E e \in entries :
                        e.user = u /\ YearOf(e.date) = mail.year
                                   /\ MonthOf(e.date) = mail.month}
            /\ \A i \in DOMAIN mail.outbox :
                  /\ Len(mail.outbox[i].sheets) = 1
                  /\ mail.outbox[i].sheets[1].name =
                        <<monthNames[mail.month], mail.year>>

\* A run in January 2024 has mailed the report of December 2023 to a user with an
\* entry in that month, and a user with entries in 2024 only is not processed.
C19_Witness ==
    /\ mail.pc = "done" /\ mail.now.month = 0
    /\ mail.year = 2023 /\ mail.month = 12
    /\ Len(mail.outbox) >= 1
    /\ \E u \in MailUsers \ Attempted : \E e \in entries : e.user = u

\* C20: in one run every user with activity is attempted exactly once, whether or
\* not earlier users failed; every step of the loop moves on to the next user, so
\* the run ends; and it returns counts with sent + skipped = number of users with
\* activity.
C20_EveryUserOnce ==
    /\ [](mail.pc \in {"running", "done"} =>
            /\ \A i \in DOMAIN mail.details :
                    mail.details[i].user = mail.usersWithActivity[i]
            /\ \A i, j \in DOMAIN mail.usersWithActivity :
                    mail.usersWithActivity[i] = mail.usersWithActivity[j] => i = j
            /\ mail.sent + mail.skipped = Len(mail.details)
            /\ mail.sent = Cardinality({i \in DOMAIN mail.details :
                                            mail.details[i].success})
            /\ mail.pc = "done" =>
                    /\ Len(mail.details) = Len(mail.usersWithActivity)
                    /\ mail.sent + mail.skipped = Cardinality(Attempted))
    /\ [][mail.pc = "running" =>
            \/ mail'.pc = "running" /\ Len(mail'.details) = Len(mail.details) + 1
            \/ mail'.pc = "done" /\ mail'.details = mail.details]_vars
    /\ [](mail.pc = "running" => ENABLED NextMail)

\* A run over three users has ended: the send to the first failed, the second has
\* no email, the third got the report.
C20_Witness ==
    /\ mail.pc = "done" /\ Len(mail.details) = 3
    /\ mail.details[1].reason = "send_failed"
    /\ mail.details[2].reason = "no_email"
    /\ mail.details[3].success
    /\ mail.sent = 1 /\ mail.skipped = 2

-----------------------------------------------------------------------------
(* SpecEdit: the calls of Spec and the direct edit and delete of an entry,   *)
(* PUT /api/entries/:id and DELETE /api/entries/:id.                         *)

\* The body { date, check_in, check_out, comment } of an edit; each field may be null.
EditRequests ==
    {[op |-> "edit", user |-> u, id |-> i, date |-> d, check_in |-> ci,
      check_out |-> co, comment |-> Null] :
        u \in Users, i \in 1..MaxCalls, d \in Dates \cup {Null},
        ci \in {Null, <<0, 9, 4, 5>>}, co \in {Null, <<1, 7, 3, 0>>}}

DeleteRequests ==
    {Request("delete", u, Null, Null, Null, Null, i) : u \in Users, i \in 1..MaxCalls}

\* UPDATE entries SET date = ?, check_in = ?, check_out = ?, comment = ?
\*   WHERE id = ? AND user_id = ?
UpdateEntry(rows, date, checkIn, checkOut, comment, id, user) ==
    {IF e.id = id /\ e.user = user
        THEN [e EXCEPT !.date = date, !.check_in = checkIn, !.check_out = checkOut,
                       !.comment = comment]
        ELSE e : e \in rows}

\* DELETE FROM entries WHERE id = ? AND user_id = ?
DeleteEntry(rows, id, user) == {e \in rows : ~(e.id = id /\ e.user = user)}

\* PUT /api/entries/:id
EditEntry(r) ==
    LET entry == FindEntry(entries, r.id, r.user)
        answer == Request("edit", r.user, Null, Null, Null, Null, r.id)
    IN  /\ Served
        /\ entries' = IF entry = {} THEN entries
                      ELSE UpdateEntry(entries,
                                       JsOr(r.date, (CHOOSE e \in entry : TRUE).date),
                                       r.check_in, r.check_out, r.comment, r.id, r.user)
        /\ last' = IF entry = {} THEN Failure(answer, Null, 404, "Entry not found")
                   ELSE Success(answer, Null, Null, 0)
        /\ UNCHANGED nextId

\* DELETE /api/entries/:id
RemoveEntry(r) ==
    LET entry == FindEntry(entries, r.id, r.user)
    IN  /\ Served
        /\ entries' = IF entry = {} THEN entries ELSE DeleteEntry(entries, r.id, r.user)
        /\ last' = IF entry = {} THEN Failure(r, Null, 404, "Entry not found")
                   ELSE Success(r, Null, Null, 0)
        /\ UNCHANGED nextId

CallEditEntry ==
    \E r \in EditRequests : EditEntry(r) /\ UNCHANGED <<inflight, log, report, push, mail, auth>>

CallRemoveEntry ==
    \E r \in DeleteRequests :
        RemoveEntry(r) /\ UNCHANGED <<inflight, log, report, push, mail, auth>>

NextEdit ==
    \/ CallClockIn \/ CallClockOut \/ CallToggle \/ CallUpdateComment
    \/ CallEditEntry \/ CallRemoveEntry

SpecEdit == Init /\ [][NextEdit]_vars

\* C21: edit, comment update and delete on an id that does not exist or is owned
\* by another user answer 404 'Entry not found' and leave the table unchanged; and
\* no call of a user changes or deletes an entry of another user.
C21_OwnEntriesOnly ==
    [][/\ (last'.op \in {"edit", "comment", "delete"}
            /\ ~ \E e \in entries : e.id = last'.id /\ e.user = last'.user)
          => (last'.status = 404 /\ last'.error = Str("Entry not found")
                /\ entries' = entries)
       /\ \A e \in entries : e.user # last'.user => e \in entries']_vars

\* A delete of an entry of the other user has been answered 404 and the entry is there.
C21_Witness ==
    /\ last.op = "delete" /\ last.status = 404
    /\ \E e \in entries : e.id = last.id /\ e.user # last.user

-----------------------------------------------------------------------------
\* C25: after any sequence of clock-in, clock-out, toggle, edit and delete calls,
\* no (user, date) has two entries with check_in set and check_out unset.
C25_AtMostOneOpenAfterEdit ==
    \A u \in Users, d \in Dates :
        \A e, f \in RowsOf(entries, u, d) : IsOpen(e) /\ IsOpen(f) => e = f

-----------------------------------------------------------------------------
\* C26: in every reachable state of the table, the states made by an edit
\* included, toggle checks in exactly when clock-in would succeed, checks out
\* exactly when clock-out would succeed, and never answers 'Unknown state'.
C26_ToggleAgrees ==
    [][last'.op = "toggle" =>
        LET latest == LatestEntry(entries, last'.user, last'.today)
        IN  /\ (last'.action = Str("check-in")) <=> ~AlreadyClockedIn(latest)
            /\ (last'.action = Str("check-out")) <=> (ClockOutError(latest) = "")
            /\ last'.error # Str("Unknown state")]_vars

-----------------------------------------------------------------------------
\* C30: under clock-in, clock-out and toggle calls, the user, date and check_in
\* of an existing entry never change, its check_out never changes once set, its
\* timezone never changes once non-null; and a clock-out or toggle made with
\* date D by user U modifies at most one entry, one of date D owned by U.
C30_Frame ==
    [][/\ \A e \in entries : \E f \in entries' :
            /\ f.id = e.id /\ f.user = e.user /\ f.date = e.date
            /\ f.check_in = e.check_in
            /\ e.check_out # Null => f.check_out = e.check_out
            /\ e.timezone # Null => f.timezone = e.timezone
       /\ last'.op \in {"clock-out", "toggle"} =>
            LET modified == {e \in entries : e \notin entries'}
            IN  /\ Cardinality(modified) <= 1
                /\ \A e \in modified : e.date = last'.today /\ e.user = last'.user]_vars

\* A clock-out that sent no timezone has closed the entry of its date, whose
\* timezone is still the one of its clock-in, while the entry of the same user
\* on the other date is still open.
C30_Witness ==
    /\ Accepted("clock-out") /\ last.tz = Null
    /\ \E e, f \in entries :
        /\ e.user = last.user /\ e.date = last.today
        /\ e.check_out = last.now /\ e.timezone # Null
        /\ f.user = last.user /\ f.date # last.today /\ IsOpen(f)

-----------------------------------------------------------------------------
\* C24: when a toggle checks out at a time of day earlier than the check-in, the
\* hours h and minutes m of the rendered duration '{h}h {m}m' still satisfy
\* h * 60 + m = (minutes of the check-out) - (minutes of the check-in).
C24_NegativeDuration ==
    (Ran("toggle") /\ last.action = Str("check-out")
        /\ MinutesOf(last.now) < MinutesOf(last.checkIn)) =>
        last.duration[1] * 60 + last.duration[3]
            = MinutesOf(last.now) - MinutesOf(last.checkIn)

-----------------------------------------------------------------------------
\* A closed entry: check_in and check_out both set.
IsClosed(e) == e.check_in # Null /\ e.check_out # Null

\* The sum of check_out - check_in, in minutes, over a set of closed entries.
RECURSIVE SumOfShifts(_)
SumOfShifts(shifts) ==
    IF shifts = {} THEN 0
    ELSE LET e == CHOOSE x \in shifts : TRUE
         IN  MinutesOf(e.check_out) - MinutesOf(e.check_in) + SumOfShifts(shifts \ {e})

\* C27: every closed entry of the user dated within the range of the report is
\* shown in the report, and the TOTAL of each month is the sum of check_out -
\* check_in over all closed entries of that month, also when a date has several
\* entries.  (Stated for months without a check-out earlier than its check-in.)
C27_EveryShiftCounted ==
    Exported /\ ~TextLess(report.endDate, report.startDate) =>
        \A i \in 1..Len(report.sheets) :
            LET closed == {e \in EntriesOfMonth(report.months[i].year,
                                                report.months[i].month) : IsClosed(e)}
                sum == SumOfShifts(closed)
                rows == report.sheets[i].rows
            IN  (\A e \in closed : MinutesOf(e.check_out) >= MinutesOf(e.check_in)) =>
                    /\ \A e \in closed :
                          /\ rows[DayOfMonth(e.date)].checkIn = e.check_in
                          /\ rows[DayOfMonth(e.date)].checkOut = e.check_out
                    /\ report.sheets[i].total =
                          <<sum \div 60, ":", PadStart2(Digits(sum % 60))>>

-----------------------------------------------------------------------------
(* SpecAdmin: one POST /api/admin/send-report/:userId.  The handler awaits    *)
(* sendReportToUser, so the request is served in two steps.                  *)

\* a || b on numbers; 0 stands for a field the body does not have (undefined and 0
\* are both falsy).
NumberOr(a, b) == IF a # 0 THEN a ELSE b

\* req.params.userId and { year, month } of req.body; no user has id 4.
AdminRequests ==
    {[userId |-> u, year |-> y, month |-> m] :
        u \in MailUsers \cup {4}, y \in {0, 2024}, m \in {0, 2, 12}}

\* The handler up to  await emailReports.sendReportToUser(user, reportYear, reportMonth)
AdminSendReport ==
    \E r \in AdminRequests, now \in MailNows :
        /\ mail.pc = "idle"
        /\ IF r.userId \notin MailUsers
           THEN mail' = [pc |-> "answered", enabled |-> mail.enabled, request |-> r,
                         now |-> now, year |-> 0, month |-> 0, status |-> 404,
                         error |-> Str("User not found"),
                         success |-> [success |-> FALSE, reason |-> ""],
                         outbox |-> <<>>]
           ELSE mail' = [pc |-> "sending", enabled |-> mail.enabled, request |-> r,
                         now |-> now,
                         year |-> NumberOr(r.year, now.year),
                         month |-> NumberOr(NumberOr(r.month, now.month), 12),
                         status |-> 0, error |-> Null,
                         success |-> [success |-> FALSE, reason |-> ""],
                         outbox |-> <<>>]
        /\ UNCHANGED <<entries, nextId, last, calls, inflight, log, report, push, auth>>

\* sendReportToUser settles: res.json({ success, user, email })
AdminReportSent ==
    \E delivered \in BOOLEAN :
        /\ mail.pc = "sending"
        /\ LET user == mail.request.userId
               reportBuffer == GenerateMonthlyReport(entries, user, mail.year, mail.month)
               result == SendReportToUser(mail.enabled, Emails[user], delivered)
           IN  mail' = [mail EXCEPT
                          !.pc = "answered",
                          !.status = 200,
                          !.success = result,
                          !.outbox =
                              IF result.success
                              THEN <<[to |-> Emails[user],
                                      subject |-> <<monthNames[mail.month], mail.year>>,
                                      sheets |-> reportBuffer]>>
                              ELSE <<>>]
        /\ UNCHANGED <<entries, nextId, last, calls, inflight, log, report, push, auth>>

NextAdmin == AdminSendReport \/ AdminReportSent

SpecAdmin == InitMail /\ [][NextAdmin]_vars

\* C23: sendReportToUser for a user who has no entry dated in the month sends no
\* email and returns success = false with reason 'no_entries' (mail being
\* configured and the user having an email address).
C23_NoEntriesNoMail ==
    (/\ mail.pc = "answered" /\ mail.status = 200
     /\ mail.enabled /\ Emails[mail.request.userId] # Null
     /\ ~ \E e \in entries : /\ e.user = mail.request.userId
                             /\ YearOf(e.date) = mail.year
                             /\ MonthOf(e.date) = mail.month) =>
        /\ mail.outbox = <<>>
        /\ mail.success = [success |-> FALSE, reason |-> "no_entries"]

\* C29: a send-report request without year and month reports on the month that
\* sendAllMonthlyReports would use at that moment, the calendar month before now:
\* (y, m - 1) for m = 2..12 and (y - 1, 12) for January.
C29_SameMonthAsRun ==
    (mail.pc \in {"sending", "answered"} /\ mail.status # 404
        /\ mail.request.year = 0 /\ mail.request.month = 0) =>
        /\ mail.month = (IF mail.now.month = 0 THEN 12 ELSE mail.now.month)
        /\ mail.year = (IF mail.now.month = 0 THEN mail.now.year - 1 ELSE mail.now.year)

-----------------------------------------------------------------------------
(* SpecSubscribe: the reminder timer of SpecPush and POST /api/subscribe.  A  *)
(* send of a tick may settle after the endpoint has been subscribed again.   *)

\* INSERT OR REPLACE INTO subscriptions (user_id, endpoint, keys) VALUES (?, ?, ?):
\* the row that holds the endpoint is deleted and a row with a new id is inserted.
InsertOrReplace(subs, id, user, endpoint, keys) ==
    {s \in subs : s.endpoint # endpoint}
        \cup {[id |-> id, user |-> user, endpoint |-> endpoint, keys |-> keys]}

\* POST /api/subscribe
Subscribe ==
    \E user \in Users, endpoint \in Endpoints :
        /\ push.nextSub <= Cardinality(Endpoints) + MaxSubscribes
        /\ push' = [push EXCEPT
                      !.subscriptions = InsertOrReplace(push.subscriptions, push.nextSub,
                                                        user, endpoint, Str("{}")),
                      !.nextSub = push.nextSub + 1,
                      !.event = [kind |-> "subscribe", user |-> user,
                                 endpoint |-> endpoint]]
        /\ UNCHANGED <<entries, nextId, last, calls, inflight, log, report, mail, auth>>

NextSubscribe == CheckReminders \/ PushResult \/ Subscribe

SpecSubscribe == InitPush /\ [][NextSubscribe]_vars

\* C28: a subscription row is deleted only when the push service reported 410 for
\* a send made to that same stored row (or when POST /api/subscribe replaces it):
\* a 410 that arrives after the endpoint was subscribed again does not delete the
\* new row; and there is at most one row per endpoint, owned after a subscribe by
\* the user who subscribed.
C28_DeletedOnlyWhenGone ==
    /\ [][\A s \in push.subscriptions : s \notin push'.subscriptions =>
            \/ push'.event.kind = "subscribe" /\ push'.event.endpoint = s.endpoint
            \/ /\ push'.event.kind = "result" /\ push'.event.status = 410
               /\ push'.event.sub = s.id]_vars
    /\ [](\A s, t \in push.subscriptions : s.endpoint = t.endpoint => s = t)
    /\ [](push.event.kind = "subscribe" =>
            \E s \in push.subscriptions :
                s.endpoint = push.event.endpoint /\ s.user = push.event.user)

-----------------------------------------------------------------------------
(* SpecRegister: POST /auth/register.  The handler awaits bcrypt.hash between *)
(* its check of the username and its INSERT, so a request is served in two    *)
(* steps and the steps of several requests interleave.                        *)

\* Texts are tuples of characters here, so that .length is Len; Null and '' are
\* both the empty tuple, and both are falsy.
Usernames == {Null, <<"a", "l">>, <<"b", "o", "b">>, <<"e", "v", "e">>}
Passwords == {Null, <<"1", "2", "3", "4", "5">>, <<"s", "e", "c", "r", "e", "t">>}

MinUsernameLength == 3
MinPasswordLength == 6

\* The table is empty when the server starts for the first time.
InitRegister ==
    /\ entries = {}
    /\ nextId = 1
    /\ last = NoResponse
    /\ calls = 0
    /\ inflight = EmptyBag
    /\ log = <<>>
    /\ report = NoReport
    /\ push = NoPush
    /\ mail = NoMail
    /\ auth = [users |-> {}, nextUser |-> 1, registrations |-> <<>>]

\* The three checks of the body, in the order of the code ("" when it passes)
RegisterBodyError(username, password) ==
    IF username = Null \/ password = Null THEN "Username and password required"
    ELSE IF Len(username) < MinUsernameLength
    THEN "Username must be at least 3 characters"
    ELSE IF Len(password) < MinPasswordLength
    THEN "Password must be at least 6 characters"
    ELSE ""

\* SELECT id FROM users WHERE username = ?
UsernameTaken(users, username) == \E u \in users : u.username = username

\* bcrypt.hash(password, 10)
Hash(password) == <<"$2b$10$", password>>

\* The handler up to  await bcrypt.hash(password, 10)
RegisterCheck ==
    \E username \in Usernames, password \in Passwords :
        LET error == RegisterBodyError(username, password)
            answered(status, text) ==
                [username |-> username, password |-> password, pc |-> "done",
                 status |-> status, error |-> text, id |-> 0]
        IN  /\ Len(auth.registrations) < MaxRegistrations
            /\ auth' = [auth EXCEPT !.registrations =
                    Append(auth.registrations,
                        IF error # "" THEN answered(400, error)
                        ELSE IF UsernameTaken(auth.users, username)
                        THEN answered(400, "Username already taken")
                        ELSE [username |-> username, password |-> password,
                              pc |-> "hashing", status |-> 0, error |-> "", id |-> 0])]
            /\ UNCHANGED <<entries, nextId, last, calls, inflight, log, report, push, mail>>

\* The hash is there: INSERT INTO users (username, password_hash) VALUES (?, ?).
\* username is UNIQUE: the statement throws when the name is in the table, the
\* catch answers 500 with the message of the error.
RegisterInsert ==
    \E i \in DOMAIN auth.registrations :
        LET r == auth.registrations[i]
        IN  /\ r.pc = "hashing"
            /\ IF \E u \in auth.users : u.username = r.username
               THEN auth' = [auth EXCEPT !.registrations[i] =
                        [r EXCEPT !.pc = "done", !.status = 500,
                                  !.error = "UNIQUE constraint failed: users.username"]]
               ELSE auth' = [auth EXCEPT
                        !.users = auth.users \cup
                            {[id |-> auth.nextUser, username |-> r.username,
                              password_hash |-> Hash(r.password)]},
                        !.nextUser = auth.nextUser + 1,
                        !.registrations[i] =
                            [r EXCEPT !.pc = "done", !.status = 200,
                                      !.id = auth.nextUser]]
            /\ UNCHANGED <<entries, nextId, last, calls, inflight, log, report, push, mail>>

NextRegister == RegisterCheck \/ RegisterInsert

SpecRegister == InitRegister /\ [][NextRegister]_vars

\* The registrations of one username that have been answered and whose body
\* passed the checks of its fields.
AnsweredFor(username) ==
    {i \in DOMAIN auth.registrations :
        /\ auth.registrations[i].pc = "done"
        /\ auth.registrations[i].username = username
        /\ Len(auth.registrations[i].password) >= 6}

\* C22: of the registrations of one new username, overlapping or not, exactly
\* one creates the user row and every other one is rejected with 400 'Username
\* already taken'; no two rows of table users have the same username.
C22_OneRowOthersTaken ==
    /\ \A u, v \in auth.users : u.username = v.username => u = v
    /\ \A username \in {n \in Usernames : Len(n) >= 3} :
            AnsweredFor(username) # {} =>
                /\ Cardinality({i \in AnsweredFor(username) :
                                    auth.registrations[i].status = 200}) = 1
                /\ \A i \in AnsweredFor(username) :
                        auth.registrations[i].status # 200 =>
                            /\ auth.registrations[i].status = 400
                            /\ auth.registrations[i].error = "Username already taken"

====
